---- MODULE Spec2Model ----
(***************************************************************************)
(* A model of rss/fetch_rss.py: the allocation strategies, the concurrent  *)
(* per-source fetch, the merge / dedup / rank step, the metadata           *)
(* aggregation and the write of the persisted snapshot.                    *)
(***************************************************************************)
EXTENDS Integers, Sequences, FiniteSets, TLC

VARIABLES
    feeds,            \* the configured sources, in configuration order (keys of RSS_FEEDS)
    weights,          \* RSS_WEIGHTS restricted to the configured sources
    capacity,         \* MAX_ENTRIES_LIMIT
    strategy,         \* main's argument
    file,             \* the document stored at output_path
    pc,               \* main's position
    old_data,         \* what main read from the file
    existing_entries, \* main's local: the historical articles
    allocation,       \* main's local: source name -> quota
    workers,          \* one record per scheduled fetch_and_process_feed call
    collected,        \* number of results main's loop has consumed
    all_new_entries,  \* main's local: the fetched entries
    final_entries,    \* main's local: merged, sorted, truncated
    categories_meta,  \* main's local: category -> count and per-source counts
    write_failed      \* main caught an IOError while saving

vars == <<feeds, weights, capacity, strategy, file, pc, old_data, existing_entries,
          allocation, workers, collected, all_new_entries, final_entries,
          categories_meta, write_failed>>

(***************************************************************************)
(* Bounds of the model.                                                    *)
(***************************************************************************)
MaxCapacity == 55
MaxWeight == 3
MaxCount == 3
MaxFeedLen == 2
PipelineCapacity == 2
MaxMergeCapacity == 2
MaxHistory == 2
MaxFetched == 2

(***************************************************************************)
(* Configuration tables.                                                   *)
(***************************************************************************)
RSS_FEEDS == <<"Meituan", "Weekly", "V2EXTech", "V2EXJobs">>

CATEGORIES == {"tech", "jobs", "news"}

FeedCategory(name) ==
    CASE name = "Meituan" -> "tech"
      [] name = "Weekly" -> "news"
      [] name = "V2EXTech" -> "tech"
      [] name = "V2EXJobs" -> "jobs"
      [] OTHER -> "other"

RSS_WEIGHTS(name) ==
    CASE name = "Meituan" -> 3
      [] name = "Weekly" -> 2
      [] name = "V2EXTech" -> 3
      [] name = "V2EXJobs" -> 2
      [] OTHER -> 1

BALANCE_STRATEGIES == {"equal", "weighted", "dynamic"}

(***************************************************************************)
(* Helpers on sequences and dictionaries.                                  *)
(***************************************************************************)
Range(s) == {s[i] : i \in 1..Len(s)}

\* Position of a name in a sequence without repetitions (1-based).
IndexOf(s, x) == CHOOSE i \in 1..Len(s) : s[i] = x

\* sum(d.values()) for a dictionary d whose keys are the elements of keys.
RECURSIVE SumValues(_, _)
SumValues(d, keys) ==
    IF keys = <<>> THEN 0 ELSE d[Head(keys)] + SumValues(d, Tail(keys))

Max(a, b) == IF a >= b THEN a ELSE b

(***************************************************************************)
(* int(c * (a / b)) in IEEE-754 double arithmetic.  The quotient a / b is  *)
(* rounded before the product is taken, so the result is the exact floor   *)
(* of c*a/b except where the rounded product of an exact integer falls     *)
(* just below it.  RoundsBelow lists every such triple with c <= 69 and    *)
(* b <= 24 (a <= b).                                                       *)
(***************************************************************************)
RoundsBelow ==
    { <<55, 3, 11>>, <<55, 6, 11>>, <<55, 6, 22>>, <<55, 12, 22>>,
      <<22, 15, 22>>, <<44, 15, 22>>, <<23, 13, 23>>, <<46, 13, 23>>,
      <<69, 21, 23>> }

FloatInt(c, a, b) ==
    LET exact == (c * a) \div b
    IN  IF <<c, a, b>> \in RoundsBelow THEN exact - 1 ELSE exact

(***************************************************************************)
(* Allocation strategies.                                                  *)
(***************************************************************************)
\* Variant of calculate_equal_allocation: the remainder test reads i <= rem.
equal_allocation_off_by_one(feed_count, total_limit) ==
    IF feed_count = 0 THEN [name \in {} |-> 0]
    ELSE LET base == total_limit \div feed_count
             rem == total_limit % feed_count
         IN  [name \in Range(feeds) |->
                 base + (IF IndexOf(feeds, name) - 1 <= rem THEN 1 ELSE 0)]

calculate_equal_allocation(feed_count, total_limit) ==
    IF feed_count = 0 THEN [name \in {} |-> 0]
    ELSE LET base == total_limit \div feed_count
             rem == total_limit % feed_count
         IN  [name \in Range(feeds) |->
                 base + (IF IndexOf(feeds, name) - 1 < rem THEN 1 ELSE 0)]

\* Variant of RoundRobin: the whole residual goes to the last source.
RoundRobinToLast(alloc, i, diff) ==
    IF diff <= 0 THEN alloc
    ELSE [alloc EXCEPT ![feeds[Len(feeds)]] = @ + diff]

\* for i in range(diff): allocation[keys[i % len(keys)]] += 1
RECURSIVE RoundRobin(_, _, _)
RoundRobin(alloc, i, diff) ==
    IF i >= diff THEN alloc
    ELSE LET name == feeds[(i % Len(feeds)) + 1]
         IN  RoundRobin([alloc EXCEPT ![name] = @ + 1], i + 1, diff)

calculate_weighted_allocation(total_limit) ==
    LET total_weight == SumValues(weights, feeds)
    IN  IF total_weight = 0
        THEN calculate_equal_allocation(Len(feeds), total_limit)
        ELSE LET alloc == [name \in Range(feeds) |->
                              FloatInt(total_limit, weights[name], total_weight)]
                 current_total == SumValues(alloc, feeds)
                 diff == total_limit - current_total
             IN  RoundRobin(alloc, 0, diff)

\* counts[name]: number of entries of existing whose blog_name is name.
RECURSIVE CountBySource(_, _)
CountBySource(existing, counts) ==
    IF existing = <<>> THEN counts
    ELSE LET e == Head(existing)
         IN  CountBySource(Tail(existing),
                 IF e.blog_name \in DOMAIN counts
                 THEN [counts EXCEPT ![e.blog_name] = @ + 1]
                 ELSE counts)

\* Variant of MaxRatioFeed: among equal ratios the last key wins.
LastMaxRatioFeed(counts) ==
    feeds[CHOOSE i \in 1..Len(feeds) :
              /\ \A j \in 1..Len(feeds) : counts[feeds[j]] <= counts[feeds[i]]
              /\ \A j \in (i + 1)..Len(feeds) : counts[feeds[j]] < counts[feeds[i]]]

\* max(ratios, key=ratios.get): the first key in dictionary order whose ratio
\* is maximal; ratios count / total are ordered as the counts are.
MaxRatioFeed(counts) ==
    feeds[CHOOSE i \in 1..Len(feeds) :
              /\ \A j \in 1..Len(feeds) : counts[feeds[j]] <= counts[feeds[i]]
              /\ \A j \in 1..(i - 1) : counts[feeds[j]] < counts[feeds[i]]]

\* while current_total < total_limit: allocation[max_ratio_feed] += 1
RECURSIVE TopUp(_, _, _, _)
TopUp(alloc, current_total, total_limit, counts) ==
    IF current_total >= total_limit THEN alloc
    ELSE TopUp([alloc EXCEPT ![MaxRatioFeed(counts)] = @ + 1],
               current_total + 1, total_limit, counts)

calculate_dynamic_allocation(existing, total_limit) ==
    LET counts == CountBySource(existing, [name \in Range(feeds) |-> 0])
        total == SumValues(counts, feeds)
    IN  IF total = 0
        THEN calculate_equal_allocation(Len(feeds), total_limit)
        ELSE LET alloc == [name \in Range(feeds) |->
                              Max(1, FloatInt(total_limit, counts[name], total))]
             IN  TopUp(alloc, SumValues(alloc, feeds), total_limit, counts)

get_allocation_strategy(existing, strat) ==
    IF strat = "equal" THEN calculate_equal_allocation(Len(feeds), capacity)
    ELSE IF strat = "weighted" THEN calculate_weighted_allocation(capacity)
    ELSE IF strat = "dynamic" THEN calculate_dynamic_allocation(existing, capacity)
    ELSE calculate_dynamic_allocation(existing, capacity)

(***************************************************************************)
(* Entries.  An entry is [link, blog_name, timestamp]; links are abstract  *)
(* URLs.  A feed item is [link, date]; a date is the item's published /    *)
(* updated string: absent ("none"), unparseable ("bad") or the text of the *)
(* instant t ("ok").                                                       *)
(***************************************************************************)
EPOCH == 0

\* parse_date followed by int(dt.timestamp()): the instant of a parseable
\* string, the sentinel datetime(1970, 1, 1, tzinfo=utc) otherwise.
parse_date(date) == IF date.kind = "ok" THEN date.t ELSE EPOCH

\* Variant of InsertPos: a key is placed before the keys equal to it.
InsertPosBeforeEqual(ks, k) ==
    IF \E i \in 1..Len(ks) : ks[i] <= k
    THEN CHOOSE i \in 1..Len(ks) : ks[i] <= k /\ \A j \in 1..(i - 1) : ks[j] > k
    ELSE Len(ks) + 1

\* Position at which sorted(..., reverse=True) places key k in the sorted
\* sequence of keys ks: after every key >= k (the sort is stable).
RECURSIVE InsertPos(_, _)
InsertPos(ks, k) ==
    IF ks = <<>> \/ Head(ks) < k THEN 1 ELSE 1 + InsertPos(Tail(ks), k)

InsertAt(s, i, x) == SubSeq(s, 1, i - 1) \o <<x>> \o SubSeq(s, i, Len(s))

\* sorted(s, key=..., reverse=True) on a sequence of [key, val] pairs.
RECURSIVE SortedReverse(_)
SortedReverse(s) ==
    IF s = <<>> THEN <<>>
    ELSE LET n == Len(s)
             front == SortedReverse(SubSeq(s, 1, n - 1))
             pos == InsertPos([i \in 1..Len(front) |-> front[i].key], s[n].key)
         IN  InsertAt(front, pos, s[n])

Take(s, n) == SubSeq(s, 1, IF n < Len(s) THEN n ELSE Len(s))

(***************************************************************************)
(* fetch_and_process_feed.                                                 *)
(***************************************************************************)
\* sorted(feed.entries, key=parse_date(published or updated or ""), reverse=True)
SortFeed(raw) ==
    LET keyed == [i \in 1..Len(raw) |-> [key |-> parse_date(raw[i].date), val |-> raw[i]]]
        srt == SortedReverse(keyed)
    IN  [i \in 1..Len(srt) |-> srt[i].val]

\* One iteration of the loop over feed_entries[:max_entries].
ProcessItem(entries, item, blog_name) ==
    IF item.date.kind = "none" THEN entries
    ELSE Append(entries, [link |-> item.link, blog_name |-> blog_name,
                          timestamp |-> parse_date(item.date)])

RECURSIVE ProcessAll(_, _, _)
ProcessAll(entries, items, blog_name) ==
    IF items = <<>> THEN entries
    ELSE ProcessAll(ProcessItem(entries, Head(items), blog_name), Tail(items), blog_name)

\* Variant of FailureResult: the exception leaves the call.
FailurePropagates(w) ==
    [w EXCEPT !.st = "raised", !.failed = TRUE, !.feed_entries = <<>>, !.k = 0,
              !.entries = <<>>]

\* except Exception: ... return entries
FailureResult(w) ==
    [w EXCEPT !.st = "returned", !.failed = TRUE, !.feed_entries = <<>>, !.k = 0]

(***************************************************************************)
(* The merge step of main.                                                 *)
(***************************************************************************)
\* Variant of Put: a link already present keeps its record.
PutKeepsFirst(combined, entry) ==
    IF \E i \in 1..Len(combined) : combined[i].link = entry.link
    THEN combined
    ELSE Append(combined, entry)

\* combined_entries[entry['link']] = entry on an insertion-ordered dict,
\* kept as the sequence of its values.
Put(combined, entry) ==
    IF \E i \in 1..Len(combined) : combined[i].link = entry.link
    THEN LET i == CHOOSE j \in 1..Len(combined) : combined[j].link = entry.link
         IN  [combined EXCEPT ![i] = entry]
    ELSE Append(combined, entry)

RECURSIVE PutAll(_, _)
PutAll(combined, entries) ==
    IF entries = <<>> THEN combined
    ELSE PutAll(Put(combined, Head(entries)), Tail(entries))

Combine(existing, fetched) == PutAll(PutAll(<<>>, existing), fetched)

\* sorted(combined_entries.values(), key=timestamp, reverse=True)[:MAX_ENTRIES_LIMIT]
SortAndTruncate(combined, limit) ==
    LET keyed == [i \in 1..Len(combined) |->
                     [key |-> combined[i].timestamp, val |-> combined[i]]]
        srt == SortedReverse(keyed)
    IN  Take([i \in 1..Len(srt) |-> srt[i].val], limit)

Merge(existing, fetched, limit) == SortAndTruncate(Combine(existing, fetched), limit)

(***************************************************************************)
(* The metadata step of main.                                              *)
(***************************************************************************)
\* source_counts[name] after the loop over final_entries.
SourceCounts(entries) == CountBySource(entries, [name \in Range(feeds) |-> 0])

\* Variant of AddSources: the category's count is set, not added to.
RECURSIVE AddSourcesOverwriting(_, _, _)
AddSourcesOverwriting(meta, names, source_counts) ==
    IF names = <<>> THEN meta
    ELSE LET src_name == Head(names)
             cat_name == FeedCategory(src_name)
             count == source_counts[src_name]
         IN  AddSourcesOverwriting(
                 IF cat_name \in DOMAIN meta
                 THEN [meta EXCEPT ![cat_name] =
                          [count |-> count,
                           sources |-> [s \in (DOMAIN @.sources) \cup {src_name} |->
                                           IF s = src_name THEN count ELSE @.sources[s]]]]
                 ELSE meta,
                 Tail(names), source_counts)

\* The loop over RSS_FEEDS.items(): each source is put in its category's
\* source map and its count added to the category's count.
RECURSIVE AddSources(_, _, _)
AddSources(meta, names, source_counts) ==
    IF names = <<>> THEN meta
    ELSE LET src_name == Head(names)
             cat_name == FeedCategory(src_name)
             count == source_counts[src_name]
         IN  AddSources(
                 IF cat_name \in DOMAIN meta
                 THEN [meta EXCEPT ![cat_name] =
                          [count |-> @.count + count,
                           sources |-> [s \in (DOMAIN @.sources) \cup {src_name} |->
                                           IF s = src_name THEN count ELSE @.sources[s]]]]
                 ELSE meta,
                 Tail(names), source_counts)

Aggregate(entries) ==
    AddSources([cat \in CATEGORIES |-> [count |-> 0, sources |-> [s \in {} |-> 0]]],
               feeds, SourceCounts(entries))

(***************************************************************************)
(* The persisted document and the state of a run.                          *)
(***************************************************************************)
FETCH_CONCURRENCY == 5

NoMeta == [total_articles |-> 0, categories |-> <<>>]

AbsentFile == [kind |-> "absent", meta |-> NoMeta, articles |-> <<>>]

\* The file right after open(output_path, "w"): truncated, nothing written.
TruncatedFile == [kind |-> "truncated", meta |-> NoMeta, articles |-> <<>>]

\* A file holding the beginning of a document: json.dump was cut short.
PartialFile == [kind |-> "partial", meta |-> NoMeta, articles |-> <<>>]

\* output_data as main builds it (last_updated and the page size are left out).
OutputData(entries, meta) ==
    [kind |-> "snapshot",
     meta |-> [total_articles |-> Len(entries), categories |-> meta],
     articles |-> entries]

Finished(w) == w.st \in {"returned", "raised"}

\* Variant of ResultReady: the loop does not wait for the call.
ResultReadyEarly(w) == TRUE

\* The iterator of executor.map yields a call's result once the call is over.
ResultReady(w) == Finished(w)

Running == {i \in 1..Len(workers) : workers[i].st = "running"}

\* tasks = [(name, config, allocation.get(name, 0)) for ... if allocation.get(name, 0) > 0]
RECURSIVE Tasks(_, _)
Tasks(names, alloc) ==
    IF names = <<>> THEN <<>>
    ELSE LET name == Head(names)
             quota == IF name \in DOMAIN alloc THEN alloc[name] ELSE 0
         IN  (IF quota > 0
              THEN <<[name |-> name, max_entries |-> quota, st |-> "queued",
                      feed_entries |-> <<>>, k |-> 0, entries |-> <<>>,
                      failed |-> FALSE]>>
              ELSE <<>>) \o Tasks(Tail(names), alloc)

(***************************************************************************)
(* What a source may serve.                                                *)
(***************************************************************************)
Seqs(S, n) == UNION {[1..k -> S] : k \in 0..n}

\* The links a source serves: every source publishes under its own site.
SourceLinks(name) ==
    CASE name = "Meituan" -> {1, 2}
      [] name = "Weekly" -> {3}
      [] name = "V2EXTech" -> {4}
      [] name = "V2EXJobs" -> {5}
      [] OTHER -> {}

FeedDates ==
    {[kind |-> "none", t |-> EPOCH], [kind |-> "bad", t |-> EPOCH], [kind |-> "ok", t |-> 1]}

RemoteFeeds(name) == Seqs([link : SourceLinks(name), date : FeedDates], MaxFeedLen)

(***************************************************************************)
(* Actions of main.                                                        *)
(***************************************************************************)
ReadHistory ==
    /\ pc = "read"
    /\ IF file.kind = "snapshot"
       THEN /\ old_data' = file
            /\ existing_entries' = file.articles
       ELSE /\ old_data' = AbsentFile
            /\ existing_entries' = <<>>
    /\ pc' = "allocate"
    /\ UNCHANGED <<feeds, weights, capacity, strategy, file, allocation, workers, collected,
                   all_new_entries, final_entries, categories_meta, write_failed>>

AllocateStep ==
    /\ pc = "allocate"
    /\ allocation' = get_allocation_strategy(existing_entries, strategy)
    /\ pc' = "submit"
    /\ UNCHANGED <<feeds, weights, capacity, strategy, file, old_data, existing_entries,
                   workers, collected, all_new_entries, final_entries, categories_meta,
                   write_failed>>

\* executor.map(fetch_and_process_feed, tasks): every task is submitted at once.
Submit ==
    /\ pc = "submit"
    /\ workers' = Tasks(feeds, allocation)
    /\ collected' = 0
    /\ all_new_entries' = <<>>
    /\ pc' = "collect"
    /\ UNCHANGED <<feeds, weights, capacity, strategy, file, old_data, existing_entries,
                   allocation, final_entries, categories_meta, write_failed>>

\* A pool thread takes the oldest queued task: feedparser.parse, then the sort
\* by date and the cut to the quota.
StartFetch(i) ==
    /\ workers[i].st = "queued"
    /\ \A j \in 1..(i - 1) : workers[j].st # "queued"
    /\ Cardinality(Running) < FETCH_CONCURRENCY
    /\ \E raw \in RemoteFeeds(workers[i].name) :
          workers' = [workers EXCEPT ![i].st = "running",
                         ![i].feed_entries = Take(SortFeed(raw), workers[i].max_entries)]
    /\ UNCHANGED <<feeds, weights, capacity, strategy, file, pc, old_data, existing_entries,
                   allocation, collected, all_new_entries, final_entries, categories_meta,
                   write_failed>>

\* One iteration of the loop over the feed's entries.
ProcessEntry(i) ==
    /\ workers[i].st = "running"
    /\ workers[i].k < Len(workers[i].feed_entries)
    /\ workers' = [workers EXCEPT ![i].k = @ + 1,
                      ![i].entries = ProcessItem(@, workers[i].feed_entries[workers[i].k + 1],
                                                 workers[i].name)]
    /\ UNCHANGED <<feeds, weights, capacity, strategy, file, pc, old_data, existing_entries,
                   allocation, collected, all_new_entries, final_entries, categories_meta,
                   write_failed>>

\* An exception anywhere inside the try block.
FetchFail(i) ==
    /\ workers[i].st = "running"
    /\ workers' = [workers EXCEPT ![i] = FailureResult(@)]
    /\ UNCHANGED <<feeds, weights, capacity, strategy, file, pc, old_data, existing_entries,
                   allocation, collected, all_new_entries, final_entries, categories_meta,
                   write_failed>>

FetchReturn(i) ==
    /\ workers[i].st = "running"
    /\ workers[i].k = Len(workers[i].feed_entries)
    /\ workers' = [workers EXCEPT ![i].st = "returned", ![i].feed_entries = <<>>, ![i].k = 0]
    /\ UNCHANGED <<feeds, weights, capacity, strategy, file, pc, old_data, existing_entries,
                   allocation, collected, all_new_entries, final_entries, categories_meta,
                   write_failed>>

\* for result in results: all_new_entries.extend(result); a call that raised
\* re-raises here and ends the run.
Collect ==
    /\ pc = "collect"
    /\ collected < Len(workers)
    /\ ResultReady(workers[collected + 1])
    /\ IF workers[collected + 1].st = "raised"
       THEN /\ pc' = "aborted"
            /\ UNCHANGED <<collected, all_new_entries>>
       ELSE /\ all_new_entries' = all_new_entries \o workers[collected + 1].entries
            /\ collected' = collected + 1
            /\ pc' = pc
    /\ UNCHANGED <<feeds, weights, capacity, strategy, file, old_data, existing_entries,
                   allocation, workers, final_entries, categories_meta, write_failed>>

\* Leaving the with block: executor.shutdown(wait=True).
JoinPool ==
    /\ pc = "collect"
    /\ collected = Len(workers)
    /\ \A i \in 1..Len(workers) : Finished(workers[i])
    /\ pc' = "merge"
    /\ UNCHANGED <<feeds, weights, capacity, strategy, file, old_data, existing_entries,
                   allocation, workers, collected, all_new_entries, final_entries,
                   categories_meta, write_failed>>

MergeStep ==
    /\ pc = "merge"
    /\ final_entries' = Merge(existing_entries, all_new_entries, capacity)
    /\ pc' = "aggregate"
    /\ UNCHANGED <<feeds, weights, capacity, strategy, file, old_data, existing_entries,
                   allocation, workers, collected, all_new_entries, categories_meta,
                   write_failed>>

AggregateStep ==
    /\ pc = "aggregate"
    /\ categories_meta' = Aggregate(final_entries)
    /\ pc' = "write"
    /\ UNCHANGED <<feeds, weights, capacity, strategy, file, old_data, existing_entries,
                   allocation, workers, collected, all_new_entries, final_entries,
                   write_failed>>

\* open(output_path, "w"): fails and leaves the file alone, or truncates it.
OpenStep ==
    /\ pc = "write"
    /\ \E opened \in BOOLEAN :
          IF opened
          THEN /\ file' = TruncatedFile
               /\ pc' = "dump"
               /\ UNCHANGED write_failed
          ELSE /\ write_failed' = TRUE
               /\ pc' = "done"
               /\ UNCHANGED file
    /\ UNCHANGED <<feeds, weights, capacity, strategy, old_data, existing_entries,
                   allocation, workers, collected, all_new_entries, final_entries,
                   categories_meta>>

\* json.dump(output_data, f): writes the document piece by piece; an IOError
\* leaves in the file what was written before it.
DumpStep ==
    /\ pc = "dump"
    /\ \E outcome \in {"saved", "failed_at_start", "failed_midway"} :
          /\ file' = CASE outcome = "saved" -> OutputData(final_entries, categories_meta)
                       [] outcome = "failed_at_start" -> file
                       [] outcome = "failed_midway" -> PartialFile
          /\ write_failed' = (outcome # "saved")
    /\ pc' = "done"
    /\ UNCHANGED <<feeds, weights, capacity, strategy, old_data, existing_entries,
                   allocation, workers, collected, all_new_entries, final_entries,
                   categories_meta>>

\* The script is started again; a new process starts with fresh locals.
RunAgain ==
    /\ pc = "done"
    /\ pc' = "read"
    /\ old_data' = AbsentFile
    /\ existing_entries' = <<>>
    /\ allocation' = <<>>
    /\ workers' = <<>>
    /\ collected' = 0
    /\ all_new_entries' = <<>>
    /\ final_entries' = <<>>
    /\ categories_meta' = <<>>
    /\ write_failed' = FALSE
    /\ UNCHANGED <<feeds, weights, capacity, strategy, file>>

(***************************************************************************)
(* The whole script: runs of main on the configured sources.               *)
(***************************************************************************)
PipelineFeeds == SubSeq(RSS_FEEDS, 1, 2)

Init ==
    /\ feeds = PipelineFeeds
    /\ weights = [name \in Range(feeds) |-> RSS_WEIGHTS(name)]
    /\ capacity = PipelineCapacity
    /\ strategy \in BALANCE_STRATEGIES
    /\ file = AbsentFile
    /\ pc = "read"
    /\ old_data = AbsentFile
    /\ existing_entries = <<>>
    /\ allocation = <<>>
    /\ workers = <<>>
    /\ collected = 0
    /\ all_new_entries = <<>>
    /\ final_entries = <<>>
    /\ categories_meta = <<>>
    /\ write_failed = FALSE

Next ==
    \/ ReadHistory
    \/ AllocateStep
    \/ Submit
    \/ \E i \in 1..Len(workers) : StartFetch(i)
    \/ \E i \in 1..Len(workers) : ProcessEntry(i)
    \/ \E i \in 1..Len(workers) : FetchFail(i)
    \/ \E i \in 1..Len(workers) : FetchReturn(i)
    \/ Collect
    \/ JoinPool
    \/ MergeStep
    \/ AggregateStep
    \/ OpenStep
    \/ DumpStep
    \/ RunAgain

Spec == Init /\ [][Next]_vars

(***************************************************************************)
(* The allocation strategies on their own: get_allocation_strategy applied *)
(* to every capacity, every non-empty prefix of the configured sources,    *)
(* every table of weights and every history of per-source counts within    *)
(* the bounds.                                                             *)
(***************************************************************************)
\* A stored history holding cnt[name] entries of each source.
RECURSIVE HistoryWithCounts(_, _, _)
HistoryWithCounts(names, cnt, first_link) ==
    IF names = <<>> THEN <<>>
    ELSE [i \in 1..cnt[Head(names)] |->
             [link |-> first_link + i - 1, blog_name |-> Head(names), timestamp |-> 1]]
         \o HistoryWithCounts(Tail(names), cnt, first_link + cnt[Head(names)])

InitAlloc ==
    /\ \E n \in 1..Len(RSS_FEEDS) : feeds = SubSeq(RSS_FEEDS, 1, n)
    /\ capacity \in 0..MaxCapacity
    /\ strategy \in BALANCE_STRATEGIES
    /\ IF strategy = "weighted"
       THEN weights \in [Range(feeds) -> 1..MaxWeight]
       ELSE weights = [name \in Range(feeds) |-> RSS_WEIGHTS(name)]
    /\ IF strategy = "dynamic"
       THEN \E cnt \in [Range(feeds) -> 0..MaxCount] :
               existing_entries = HistoryWithCounts(feeds, cnt, 1)
       ELSE existing_entries = <<>>
    /\ file = AbsentFile
    /\ old_data = AbsentFile
    /\ pc = "allocate"
    /\ allocation = <<>>
    /\ workers = <<>>
    /\ collected = 0
    /\ all_new_entries = <<>>
    /\ final_entries = <<>>
    /\ categories_meta = <<>>
    /\ write_failed = FALSE

SpecAlloc == InitAlloc /\ [][AllocateStep]_vars

(***************************************************************************)
(* The merge and metadata steps on their own: applied to every stored      *)
(* history main can have written and every fetched list within the bounds. *)
(***************************************************************************)
MergeLinks == {1, 2, 3}

Timestamps == {-1, 0, 1}

LinkSource(l) == CHOOSE name \in Range(RSS_FEEDS) : l \in SourceLinks(name)

MergeEntries ==
    {[link |-> l, blog_name |-> LinkSource(l), timestamp |-> t] :
        l \in MergeLinks, t \in Timestamps}

\* What main stores: no link twice, newest first, at most limit entries.
IsStored(entries, limit) ==
    /\ Len(entries) <= limit
    /\ \A i, j \in 1..Len(entries) : i < j =>
          /\ entries[i].link # entries[j].link
          /\ entries[i].timestamp >= entries[j].timestamp

InitMerge ==
    /\ feeds = RSS_FEEDS
    /\ weights = [name \in Range(feeds) |-> RSS_WEIGHTS(name)]
    /\ capacity \in 0..MaxMergeCapacity
    /\ strategy = "dynamic"
    /\ existing_entries \in {h \in Seqs(MergeEntries, MaxHistory) : IsStored(h, capacity)}
    /\ all_new_entries \in Seqs(MergeEntries, MaxFetched)
    /\ file = OutputData(existing_entries, Aggregate(existing_entries))
    /\ old_data = file
    /\ pc = "merge"
    /\ allocation = <<>>
    /\ workers = <<>>
    /\ collected = 0
    /\ final_entries = <<>>
    /\ categories_meta = <<>>
    /\ write_failed = FALSE

NextMerge ==
    \/ MergeStep
    \/ AggregateStep

SpecMerge == InitMerge /\ [][NextMerge]_vars

(***************************************************************************)
(* Properties of the allocation strategies (checked under SpecAlloc).      *)
(***************************************************************************)
Allocated == pc = "submit"

\* floor(capacity * part / whole) in exact arithmetic.
ExactShare(part, whole) == (capacity * part) \div whole

HistoricalCount(name) ==
    Cardinality({i \in 1..Len(existing_entries) : existing_entries[i].blog_name = name})

TotalHistorical ==
    Cardinality({i \in 1..Len(existing_entries) : existing_entries[i].blog_name \in Range(feeds)})

\* Sum of f[feeds[i]] for i in 1..n.
RECURSIVE SumFirst(_, _)
SumFirst(f, n) == IF n = 0 THEN 0 ELSE f[feeds[n]] + SumFirst(f, n - 1)

\* C1: for the equal and the weighted strategy every quota is a non-negative
\* integer, every configured source has one, and the quotas sum to exactly
\* the capacity.
C1_QuotasSumToCapacity ==
    (Allocated /\ strategy \in {"equal", "weighted"}) =>
        /\ DOMAIN allocation = Range(feeds)
        /\ \A name \in Range(feeds) : allocation[name] \in Nat
        /\ SumFirst(allocation, Len(feeds)) = capacity

\* A weighted allocation in which the floating-point share of a source fell
\* one below its exact share and the quotas still sum to the capacity.
C1_Witness ==
    /\ Allocated
    /\ strategy = "weighted"
    /\ \E name \in Range(feeds) :
          <<capacity, weights[name], SumFirst(weights, Len(feeds))>> \in RoundsBelow
    /\ SumFirst(allocation, Len(feeds)) = capacity

\* C2 as stated: in weighted allocation every source but the last receives
\* exactly floor(capacity * weight / total_weight) and the last one receives
\* the whole residual.
C2_LastAbsorbsResidual ==
    (Allocated /\ strategy = "weighted") =>
        LET n == Len(feeds)
            total_weight == SumFirst(weights, n)
            floors == [name \in Range(feeds) |-> ExactShare(weights[name], total_weight)]
        IN  /\ \A i \in 1..(n - 1) : allocation[feeds[i]] = floors[feeds[i]]
            /\ allocation[feeds[n]] = capacity - SumFirst(floors, n - 1)

\* C2 as amended: every source starts from int(capacity * (weight /
\* total_weight)) as floating-point arithmetic gives it, and the residual
\* (capacity minus the sum of these) is handed out one unit at a time in
\* configuration order starting from the first source, wrapping around; the
\* last source receives no more of it than that.
C2_ResidualRoundRobin ==
    (Allocated /\ strategy = "weighted") =>
        LET n == Len(feeds)
            total_weight == SumFirst(weights, n)
            base == [name \in Range(feeds) |->
                        FloatInt(capacity, weights[name], total_weight)]
            residual == capacity - SumFirst(base, n)
        IN  \A i \in 1..n :
               allocation[feeds[i]] =
                   base[feeds[i]] + (residual \div n)
                       + (IF i - 1 < residual % n THEN 1 ELSE 0)

\* A weighted allocation over several sources in which rounding lost units:
\* the first source holds one more than its share and the last exactly its share.
C2_Witness ==
    /\ Allocated
    /\ strategy = "weighted"
    /\ Len(feeds) >= 2
    /\ LET n == Len(feeds)
           total_weight == SumFirst(weights, n)
       IN  /\ allocation[feeds[1]] = ExactShare(weights[feeds[1]], total_weight) + 1
           /\ allocation[feeds[n]] = ExactShare(weights[feeds[n]], total_weight)

\* C3 as stated: in dynamic allocation an empty history gives the equal
\* allocation; otherwise each ratio is max(count / total, 0.1), so every source
\* receives at least floor(0.1 * capacity), every source but the last receives
\* floor(ratio * capacity) and the last one absorbs the residual.
C3_TenPercentFloor ==
    (Allocated /\ strategy = "dynamic") =>
        LET n == Len(feeds)
        IN  IF TotalHistorical = 0
            THEN \A i \in 1..n :
                    allocation[feeds[i]] =
                        (capacity \div n) + (IF i - 1 < capacity % n THEN 1 ELSE 0)
            ELSE LET share == [name \in Range(feeds) |->
                                  Max(ExactShare(HistoricalCount(name), TotalHistorical),
                                      capacity \div 10)]
                 IN  /\ \A name \in Range(feeds) : allocation[name] >= capacity \div 10
                     /\ \A i \in 1..(n - 1) : allocation[feeds[i]] = share[feeds[i]]
                     /\ allocation[feeds[n]] = capacity - SumFirst(share, n - 1)

\* C3 as amended: in dynamic allocation an empty history gives the equal
\* allocation; otherwise every source starts from max(1, int((count / total)
\* * capacity)) in floating-point arithmetic, so every source receives at
\* least 1; the first source in configuration order among those with the
\* largest historical count receives in addition the residual (capacity minus
\* the sum of these, when that is positive), and every other source exactly
\* its start value.
C3_AtLeastOneAndTopAbsorbs ==
    (Allocated /\ strategy = "dynamic") =>
        LET n == Len(feeds)
        IN  IF TotalHistorical = 0
            THEN \A i \in 1..n :
                    allocation[feeds[i]] =
                        (capacity \div n) + (IF i - 1 < capacity % n THEN 1 ELSE 0)
            ELSE LET start == [name \in Range(feeds) |->
                                  Max(1, FloatInt(capacity, HistoricalCount(name),
                                                  TotalHistorical))]
                     residual == Max(0, capacity - SumFirst(start, n))
                     top == CHOOSE i \in 1..n :
                                /\ \A j \in 1..n :
                                      HistoricalCount(feeds[j]) <= HistoricalCount(feeds[i])
                                /\ \A j \in 1..(i - 1) :
                                      HistoricalCount(feeds[j]) < HistoricalCount(feeds[i])
                 IN  \A i \in 1..n :
                        /\ allocation[feeds[i]] >= 1
                        /\ allocation[feeds[i]] =
                               start[feeds[i]] + (IF i = top THEN residual ELSE 0)

\* A dynamic allocation with a non-empty history in which a source without
\* history holds one unit, below a tenth of the capacity, and two sources tie
\* for the largest count, the first of them holding the residual.
C3_Witness ==
    /\ Allocated
    /\ strategy = "dynamic"
    /\ capacity >= 20
    /\ Len(feeds) >= 3
    /\ HistoricalCount(feeds[1]) = 0
    /\ allocation[feeds[1]] = 1
    /\ HistoricalCount(feeds[2]) = HistoricalCount(feeds[3])
    /\ HistoricalCount(feeds[2]) > 0
    /\ allocation[feeds[2]] > allocation[feeds[3]]

(***************************************************************************)
(* Properties of the merge and metadata steps (checked under SpecMerge).   *)
(***************************************************************************)
Merged == pc \in {"aggregate", "write", "dump", "done"}

LinksOf(entries) == {entries[i].link : i \in 1..Len(entries)}

\* The last record of entries that carries the link l.
LastWithLink(entries, l) ==
    entries[CHOOSE i \in 1..Len(entries) :
                /\ entries[i].link = l
                /\ \A j \in (i + 1)..Len(entries) : entries[j].link # l]

Min(a, b) == IF a <= b THEN a ELSE b

\* C4: after the merge no link appears in two entries of the output, and
\* the record kept for a link present in both the historical and the fetched
\* list is the fetched record, whole.
C4_FetchedRecordWins ==
    Merged =>
        /\ \A i, j \in 1..Len(final_entries) :
              i # j => final_entries[i].link # final_entries[j].link
        /\ \A i \in 1..Len(final_entries) :
              final_entries[i].link \in LinksOf(existing_entries) \cap LinksOf(all_new_entries)
                  => final_entries[i] = LastWithLink(all_new_entries, final_entries[i].link)

\* A merge in which a link is stored with one timestamp and fetched with
\* another, and the output holds the fetched record.
C4_Witness ==
    /\ Merged
    /\ \E i \in 1..Len(final_entries) :
          /\ final_entries[i].link \in LinksOf(existing_entries) \cap LinksOf(all_new_entries)
          /\ LastWithLink(existing_entries, final_entries[i].link) # final_entries[i]
          /\ final_entries[i] \in Range(all_new_entries)

\* The part of C5 that does not concern the sentinel: the output is sorted
\* by descending timestamp, holds min(capacity, number of distinct links)
\* entries, and no dropped entry is newer than a retained one.
C5_SortedMostRecent ==
    Merged =>
        LET combined == Combine(existing_entries, all_new_entries)
        IN  /\ \A i, j \in 1..Len(final_entries) :
                  i < j => final_entries[i].timestamp >= final_entries[j].timestamp
            /\ Len(final_entries) =
                  Min(capacity, Cardinality(LinksOf(existing_entries) \cup LinksOf(all_new_entries)))
            /\ \A d \in Range(combined) \ Range(final_entries) :
                  \A i \in 1..Len(final_entries) :
                     d.timestamp <= final_entries[i].timestamp

\* C5: the merged output is sorted by descending timestamp, holds exactly
\* min(capacity, number of distinct links) entries, no dropped entry is newer
\* than a retained one, and the entries carrying the sentinel epoch timestamp
\* come after every entry with a parsed timestamp.
C5_SentinelSortsLast ==
    /\ C5_SortedMostRecent
    /\ Merged =>
          \A i, j \in 1..Len(final_entries) :
             (final_entries[i].timestamp = EPOCH /\ final_entries[j].timestamp # EPOCH)
                 => j < i

EntriesOfSource(name) ==
    Cardinality({i \in 1..Len(final_entries) : final_entries[i].blog_name = name})

SourcesOfCategory(cat) == {name \in Range(feeds) : FeedCategory(name) = cat}

RECURSIVE SumOverSet(_, _)
SumOverSet(f, S) ==
    IF S = {} THEN 0
    ELSE LET x == CHOOSE y \in S : TRUE IN f[x] + SumOverSet(f, S \ {x})

\* C10: in the metadata every configured category appears exactly once; a
\* category none of whose sources has an entry in the final list has count 0
\* and no source with a non-zero count; and every category's count is the sum
\* of the counts of the sources assigned to it, a source's count being the
\* number of final entries that carry its name.
C10_CategoryCounts ==
    pc \in {"write", "dump", "done"} =>
        /\ DOMAIN categories_meta = CATEGORIES
        /\ \A cat \in CATEGORIES :
              LET srcs == SourcesOfCategory(cat)
                  per_source == [name \in srcs |-> EntriesOfSource(name)]
              IN  /\ categories_meta[cat].sources = per_source
                  /\ categories_meta[cat].count = SumOverSet(per_source, srcs)
                  /\ (\A name \in srcs : EntriesOfSource(name) = 0) =>
                        /\ categories_meta[cat].count = 0
                        /\ \A name \in DOMAIN categories_meta[cat].sources :
                              categories_meta[cat].sources[name] = 0

\* Metadata of a final list holding two entries of one source of a category
\* with two sources, while another category has no entry at all.
C10_Witness ==
    /\ pc = "write"
    /\ categories_meta["tech"].count = 2
    /\ categories_meta["tech"].sources["Meituan"] = 2
    /\ categories_meta["tech"].sources["V2EXTech"] = 0
    /\ categories_meta["jobs"].count = 0
    /\ categories_meta["jobs"].sources["V2EXJobs"] = 0

(***************************************************************************)
(* Properties of a run (checked under Spec).                               *)
(***************************************************************************)
\* Concatenation of the entries of workers 1..n, in task order.
RECURSIVE ConcatResults(_, _)
ConcatResults(ws, n) ==
    IF n = 0 THEN <<>> ELSE ConcatResults(ws, n - 1) \o ws[n].entries

PastFanIn == pc \in {"merge", "aggregate", "write", "dump", "done"}

\* C7: under every interleaving of the fetch workers the merge starts only
\* after every scheduled call is over; the fetched entries the merge uses are
\* the results of the finished calls, in task order, and nothing of a call
\* still queued or running is ever taken.
C7_MergeAfterAllFetches ==
    /\ collected <= Len(workers)
    /\ \A i \in 1..collected : Finished(workers[i])
    /\ all_new_entries = ConcatResults(workers, collected)
    /\ PastFanIn =>
          /\ collected = Len(workers)
          /\ \A i \in 1..Len(workers) : Finished(workers[i])
          /\ [i \in 1..Len(workers) |-> workers[i].name]
                = SelectSeq(feeds, LAMBDA name : allocation[name] > 0)

\* The merge is about to start after two calls ran, each returning entries.
C7_Witness ==
    /\ pc = "merge"
    /\ Len(workers) = 2
    /\ workers[1].entries # <<>>
    /\ workers[2].entries # <<>>
    /\ all_new_entries = workers[1].entries \o workers[2].entries

\* What C8 says of every state: no failure ends the run, every call hands
\* back a list, a running call's list is what its loop has built so far, the
\* merge works on the whole history and on every call's list, and a run
\* whose write went through has stored the snapshot.
C8_RunSurvives ==
    /\ pc # "aborted"
    /\ \A i \in 1..Len(workers) :
          /\ workers[i].st # "raised"
          /\ workers[i].st = "running" =>
                workers[i].entries =
                    ProcessAll(<<>>, SubSeq(workers[i].feed_entries, 1, workers[i].k),
                               workers[i].name)
    /\ Merged =>
          final_entries =
              Merge(old_data.articles, ConcatResults(workers, Len(workers)), capacity)
    /\ (pc = "done" /\ ~write_failed) =>
          file = OutputData(final_entries, categories_meta)

\* What C8 says of every step: a call that fails hands back the list it had
\* built, and touches neither another call nor anything of main.
C8_FailureStep ==
    \A i \in (DOMAIN workers) \cap (DOMAIN workers') :
        (~workers[i].failed /\ workers'[i].failed) =>
            /\ workers[i].st = "running"
            /\ workers'[i].st = "returned"
            /\ workers'[i].entries = workers[i].entries
            /\ \A j \in (DOMAIN workers) \ {i} : workers'[j] = workers[j]
            /\ UNCHANGED <<pc, file, old_data, existing_entries, allocation, collected,
                           all_new_entries, final_entries, categories_meta>>

\* C8: a failure while fetching or processing one source is confined to that
\* source: it contributes nothing or the partial list built before the
\* failure, the run continues, the history and the entries of every other
\* source reach the merge, and the run still writes a snapshot.
C8_FailureConfined == []C8_RunSurvives /\ [][C8_FailureStep]_vars

\* A finished run with a stored history in which one call failed after it had
\* built part of its list, another call returned entries, and the snapshot
\* written holds entries of both.
C8_Witness ==
    /\ pc = "done"
    /\ ~write_failed
    /\ file.kind = "snapshot"
    /\ existing_entries # <<>>
    /\ Len(workers) = 2
    /\ workers[1].failed
    /\ workers[1].max_entries = 2
    /\ Len(workers[1].entries) = 1
    /\ ~workers[2].failed
    /\ workers[2].entries # <<>>
    /\ Range(workers[1].entries) \cap Range(file.articles) # {}
    /\ Range(workers[2].entries) \cap Range(file.articles) # {}

\* C9: when the write of the file fails, the file holds the complete prior
\* snapshot or the complete new one.
C9_FailedWriteKeepsSnapshot ==
    (pc = "done" /\ write_failed /\ old_data.kind = "snapshot") =>
        \/ file = old_data
        \/ file = OutputData(final_entries, categories_meta)

====
